---- MODULE Spec2Model ----
(***************************************************************************)
(* Zero2JSON: position-as-seed procedural text generation.                 *)
(*                                                                         *)
(* Representation of values.                                               *)
(*  - A Python int is a pair <<hi, lo>> standing for hi * 2^16 + lo, with  *)
(*    lo in 0..65535 and hi any integer (negative hi for negative ints).   *)
(*    A 32-bit word is such a pair with hi in 0..65535.                    *)
(*  - A Python str is a sequence of pieces; template, pool-name and pool   *)
(*    item strings are sequences of single characters, because str.format  *)
(*    and str.replace inspect them character by character.                 *)
(*  - A Python call returns a record whose field exc is "none" or the name *)
(*    of the exception the call raises.                                    *)
(***************************************************************************)
EXTENDS Integers, Sequences, FiniteSets, TLC

VARIABLES
    files,          \* the profiles directory: file name -> file content
    profile_cache,  \* Zero2JSONBaseNode._profile_cache: file name -> profile
    inp,            \* the arguments a pure function is applied to
    out,            \* the last call: its arguments, result and trace
    memo            \* the first result seen for the arguments in inp

vars == <<files, profile_cache, inp, out, memo>>

(***************************************************************************)
(* 32-bit arithmetic on <<hi, lo>> pairs                                   *)
(***************************************************************************)
B16 == 2^16

W(hi, lo) == <<hi, lo>>

Hi(x) == x[1]

Lo(x) == x[2]

\* seed & 0xFFFF
Mask32_low16(x) == <<0, Lo(x)>>

\* seed & 0xFFFFFFFF
Mask32(x) == <<Hi(x) % B16, Lo(x)>>

\* Python int addition x + n for a small natural n
AddInt(x, n) == <<Hi(x) + ((Lo(x) + n) \div B16), (Lo(x) + n) % B16>>

Add32(a, b) == <<(Hi(a) + Hi(b) + ((Lo(a) + Lo(b)) \div B16)) % B16, (Lo(a) + Lo(b)) % B16>>

Sub32(a, b) == <<(Hi(a) - Hi(b) - (IF Lo(a) < Lo(b) THEN 1 ELSE 0)) % B16, (Lo(a) - Lo(b)) % B16>>

\* (x * y) mod 2^16 for 16-bit x, y, without leaving 31 bits
MulLo16(x, y) == (x * (y % 256) + ((x * (y \div 256)) % 256) * 256) % B16

\* (x * y) div 2^16 for 16-bit x, y
MulHi16(x, y) ==
    LET t0 == x * (y % 256)
        t1 == x * (y \div 256)
    IN  (t1 \div 256) + ((t0 + (t1 % 256) * 256) \div B16)

Mul32(a, b) ==
    <<(MulHi16(Lo(a), Lo(b)) + MulLo16(Hi(a), Lo(b)) + MulLo16(Lo(a), Hi(b))) % B16,
      MulLo16(Lo(a), Lo(b))>>

Rotl32(x, r) ==
    LET y == IF r >= 16 THEN <<Lo(x), Hi(x)>> ELSE x
        s == IF r >= 16 THEN r - 16 ELSE r
    IN  <<((Hi(y) * (2^s)) % B16) + (Lo(y) \div (2^(16 - s))),
          ((Lo(y) * (2^s)) % B16) + (Hi(y) \div (2^(16 - s)))>>

\* x >> r for 0 < r <= 16
Shr32(x, r) ==
    IF r = 16 THEN <<0, Hi(x)>>
    ELSE <<Hi(x) \div (2^r), (Lo(x) \div (2^r)) + (Hi(x) % (2^r)) * (2^(16 - r))>>

RECURSIVE XorNat(_, _)
XorNat(a, b) ==
    IF a = 0 THEN b
    ELSE IF b = 0 THEN a
    ELSE ((a + b) % 2) + 2 * XorNat(a \div 2, b \div 2)

Xor32(a, b) == <<XorNat(Hi(a), Hi(b)), XorNat(Lo(a), Lo(b))>>

\* h % n for a 32-bit word h and 0 < n < 2^15
Mod32(h, n) == (((Hi(h) % n) * (B16 % n)) + Lo(h)) % n

(***************************************************************************)
(* xxhash.xxh32 (the library the hasher delegates to), over a byte         *)
(* sequence                                                                *)
(***************************************************************************)
PRIME32_1 == W(40503, 31153)

PRIME32_2 == W(34283, 51831)

PRIME32_3 == W(49842, 44605)

PRIME32_4 == W(10196, 60207)

PRIME32_5 == W(5718, 26545)

\* little-endian 32-bit word at bytes i..i+3 (1-based)
WordAt(data, i) == <<data[i + 2] + 256 * data[i + 3], data[i] + 256 * data[i + 1]>>

XXH32_round(acc, w) == Mul32(Rotl32(Add32(acc, Mul32(w, PRIME32_2)), 13), PRIME32_1)

RECURSIVE XXH32_stripes(_, _, _)
XXH32_stripes(data, i, v) ==
    IF i + 15 > Len(data) THEN <<i, v>>
    ELSE XXH32_stripes(data, i + 16,
            [k \in 1..4 |-> XXH32_round(v[k], WordAt(data, i + 4 * (k - 1)))])

RECURSIVE XXH32_words(_, _, _)
XXH32_words(data, i, h) ==
    IF i + 3 > Len(data) THEN <<i, h>>
    ELSE XXH32_words(data, i + 4,
            Mul32(Rotl32(Add32(h, Mul32(WordAt(data, i), PRIME32_3)), 17), PRIME32_4))

RECURSIVE XXH32_bytes(_, _, _)
XXH32_bytes(data, i, h) ==
    IF i > Len(data) THEN h
    ELSE XXH32_bytes(data, i + 1,
            Mul32(Rotl32(Add32(h, Mul32(W(0, data[i]), PRIME32_5)), 11), PRIME32_1))

\* h ^ (h >> r)
XorShift(h, r) == Xor32(h, Shr32(h, r))

XXH32_avalanche(h0) ==
    XorShift(Mul32(XorShift(Mul32(XorShift(h0, 15), PRIME32_2), 13), PRIME32_3), 16)

\* the accumulator after the 16-byte stripes: <<next position, value>>
XXH32_merge(seed, st) ==
    IF st[1] > 1
    THEN <<st[1], Add32(Add32(Rotl32(st[2][1], 1), Rotl32(st[2][2], 7)),
                        Add32(Rotl32(st[2][3], 12), Rotl32(st[2][4], 18)))>>
    ELSE <<1, Add32(seed, PRIME32_5)>>

XXH32_tail(data, ws) == XXH32_avalanche(XXH32_bytes(data, ws[1], ws[2]))

XXH32_body(data, m) ==
    XXH32_tail(data, XXH32_words(data, m[1], Add32(m[2], W(Len(data) \div B16, Len(data) % B16))))

\* xxhash.xxh32(data, seed=seed).intdigest()
xxh32(data, seed) ==
    XXH32_body(data, XXH32_merge(seed,
        XXH32_stripes(data, 1, <<Add32(Add32(seed, PRIME32_1), PRIME32_2),
                                 Add32(seed, PRIME32_2), seed, Sub32(seed, PRIME32_1)>>)))

(***************************************************************************)
(* Call results                                                            *)
(***************************************************************************)
Ok(v) == [exc |-> "none", val |-> v]

Raise(e) == [exc |-> e, val |-> <<>>]

\* v = <expression>; <rest using v>: the expression is evaluated once
Bind(v, Rest(_)) == Rest(v)

\* the same, the expression being evaluated before the rest is entered
BindNow(v, Rest(_)) == CHOOSE r \in {Rest(x) : x \in {v}} : TRUE

(***************************************************************************)
(* Core hash functions                                                     *)
(***************************************************************************)
\* struct.pack's 'i' accepts -2^31 <= c < 2^31
FitsInt32(c) == Hi(c) >= -32768 /\ Hi(c) <= 32767

\* the four little-endian bytes of one packed coordinate (two's complement)
PackWord(c) ==
    LET h == Hi(c) % B16
    IN  <<Lo(c) % 256, Lo(c) \div 256, h % 256, h \div 256>>

RECURSIVE PackBytes(_)
PackBytes(coords) ==
    IF coords = <<>> THEN <<>> ELSE PackWord(Head(coords)) \o PackBytes(Tail(coords))

\* struct.pack('<' + 'i' * len(coords), *coords)
struct_pack(coords) ==
    IF \E k \in 1..Len(coords) : ~FitsInt32(coords[k])
    THEN Raise("struct.error")
    ELSE Ok(PackBytes(coords))

prompt_hash(seed, coords) ==
    LET packed == struct_pack(coords)
    IN  IF packed.exc # "none" THEN Raise(packed.exc)
        ELSE Ok(xxh32(packed.val, Mask32(seed)))

\* hash_to_index with a process-wide rotation: the index moves by one once any
\* call has been made
hash_to_index_rotating(h, pool_size) ==
    IF pool_size = 0 THEN Raise("ZeroDivisionError")
    ELSE Ok((Mod32(h, pool_size) + (IF out.op = "none" THEN 0 ELSE 1)) % pool_size)

\* h % pool_size; the value is a 0-based index
hash_to_index(h, pool_size) ==
    IF pool_size = 0 THEN Raise("ZeroDivisionError") ELSE Ok(Mod32(h, pool_size))

(***************************************************************************)
(* Strings                                                                 *)
(***************************************************************************)
Digits == {"0", "1", "2", "3", "4", "5", "6", "7", "8", "9"}

StartsWith(s, i, old) ==
    /\ i + Len(old) - 1 <= Len(s)
    /\ \A k \in 1..Len(old) : s[i + k - 1] = old[k]

RECURSIVE ReplaceFrom(_, _, _, _)
ReplaceFrom(s, i, old, new) ==
    IF i > Len(s) THEN <<>>
    ELSE IF StartsWith(s, i, old) THEN new \o ReplaceFrom(s, i + Len(old), old, new)
    ELSE <<s[i]>> \o ReplaceFrom(s, i + 1, old, new)

\* s.replace(old, new) for a non-empty old
str_replace(s, old, new) == ReplaceFrom(s, 1, old, new)

\* dict lookups on an insertion-ordered dict kept as a sequence of items
HasKey(d, key) == \E k \in 1..Len(d) : d[k].key = key

Lookup(d, key) == d[CHOOSE k \in 1..Len(d) : d[k].key = key].value

\* d.get(key, default)
dict_get(d, key, default) == IF HasKey(d, key) THEN Lookup(d, key) ELSE default

\* position of the first brace at or after i, or 0 when there is none
RECURSIVE NextBrace(_, _)
NextBrace(s, i) ==
    IF i > Len(s) THEN 0
    ELSE IF s[i] \in {"{", "}"} THEN i
    ELSE NextBrace(s, i + 1)

\* str.format(**kwargs) from position i on, acc being the text rendered so
\* far: "{{" and "}}" are escapes, "{name}" looks name up in kwargs, an empty
\* or all-digit name is positional (there are no positional arguments), and
\* the first error met in a left-to-right scan is the one raised.  Templates
\* use no '.', '[', '!' or ':' characters.
RECURSIVE FormatFrom(_, _, _, _)
FormatFrom(s, i, kwargs, acc) ==
    IF i > Len(s) THEN Ok(acc)
    ELSE IF s[i] = "}"
    THEN IF i = Len(s) \/ s[i + 1] # "}" THEN Raise("ValueError")
         ELSE FormatFrom(s, i + 2, kwargs, acc \o <<"}">>)
    ELSE IF s[i] = "{"
    THEN IF i = Len(s) THEN Raise("ValueError")
         ELSE IF s[i + 1] = "{" THEN FormatFrom(s, i + 2, kwargs, acc \o <<"{">>)
         ELSE LET j    == NextBrace(s, i + 1)
                  name == SubSeq(s, i + 1, j - 1)
              IN  IF j = 0 THEN Raise("ValueError")
                  ELSE IF s[j] = "{" THEN Raise("ValueError")
                  ELSE IF \A k \in 1..Len(name) : name[k] \in Digits
                  THEN Raise("IndexError")
                  ELSE IF ~HasKey(kwargs, name) THEN Raise("KeyError")
                  ELSE FormatFrom(s, j + 1, kwargs, acc \o Lookup(kwargs, name))
    ELSE FormatFrom(s, i + 1, kwargs, acc \o <<s[i]>>)

str_format(s, kwargs) == FormatFrom(s, 1, kwargs, <<>>)

(***************************************************************************)
(* Prompt generation                                                       *)
(*                                                                         *)
(* A profile is a function whose domain holds the keys present in the      *)
(* parsed JSON object; profile["templates"] is a sequence of strings and   *)
(* profile["pools"] an insertion-ordered dict (a sequence of items         *)
(* [key, value]) from pool name to a sequence of strings.                  *)
(*                                                                         *)
(* generate_prompt returns [exc, val] extended with a trace of the call:   *)
(* hashes, the coordinate tuples prompt_hash was called with, in order;    *)
(* sizes, the pool_size arguments hash_to_index was called with, in order; *)
(* template, the template chosen; components, the dict filled by step 2.   *)
(***************************************************************************)
Ret(e, v, hs, ns, t, cs) ==
    [exc |-> e, val |-> v, hashes |-> hs, sizes |-> ns, template |-> t, components |-> cs]

\* the pool's coordinate without the + 1
Ordinal_from_zero(i) == W(0, i)

\* the coordinate of the i-th pool (0-based i, as enumerate counts)
Ordinal(i) == W(0, i + 1)

\* Step 2 with the pool's coordinate counted on from the number of pools
RECURSIVE SelectComponents_counted(_, _, _, _, _)
SelectComponents_counted(seed, prompt_idx, pools, i, st) ==
    IF i >= Len(pools) THEN st
    ELSE
    Bind(<<prompt_idx, Ordinal(i + Len(pools))>>, LAMBDA crd :
    Bind(prompt_hash(seed, crd), LAMBDA ch :
        IF ch.exc # "none"
        THEN [st EXCEPT !.exc = ch.exc, !.hashes = Append(st.hashes, crd)]
        ELSE
        Bind(hash_to_index(ch.val, Len(pools[i + 1].value)), LAMBDA ix :
            IF ix.exc # "none"
            THEN [st EXCEPT !.exc = ix.exc, !.hashes = Append(st.hashes, crd),
                            !.sizes = Append(st.sizes, Len(pools[i + 1].value))]
            ELSE SelectComponents_counted(seed, prompt_idx, pools, i + 1,
                     [st EXCEPT !.hashes = Append(st.hashes, crd),
                                !.sizes = Append(st.sizes, Len(pools[i + 1].value)),
                                !.components = Append(st.components,
                                    [key |-> pools[i + 1].key,
                                     value |-> pools[i + 1].value[ix.val + 1]])]))))

\* Step 2: for i, (key, pool) in enumerate(pools.items()), from the 0-based
\* position i on; st is [exc, hashes, sizes, components] so far
RECURSIVE SelectComponents(_, _, _, _, _)
SelectComponents(seed, prompt_idx, pools, i, st) ==
    IF i >= Len(pools) THEN st
    ELSE
    Bind(<<prompt_idx, Ordinal(i)>>, LAMBDA crd :
    Bind(prompt_hash(seed, crd), LAMBDA ch :
        IF ch.exc # "none"
        THEN [st EXCEPT !.exc = ch.exc, !.hashes = Append(st.hashes, crd)]
        ELSE
        Bind(hash_to_index(ch.val, Len(pools[i + 1].value)), LAMBDA ix :
            IF ix.exc # "none"
            THEN [st EXCEPT !.exc = ix.exc, !.hashes = Append(st.hashes, crd),
                            !.sizes = Append(st.sizes, Len(pools[i + 1].value))]
            ELSE SelectComponents(seed, prompt_idx, pools, i + 1,
                     [st EXCEPT !.hashes = Append(st.hashes, crd),
                                !.sizes = Append(st.sizes, Len(pools[i + 1].value)),
                                !.components = Append(st.components,
                                    [key |-> pools[i + 1].key,
                                     value |-> pools[i + 1].value[ix.val + 1]])]))))

\* the except branch: for key in pools.keys(): template = template.replace(...)
RECURSIVE Fallback(_, _, _, _)
Fallback(template, pools, components, i) ==
    IF i > Len(pools) THEN template
    ELSE LET key == pools[i].key
         IN  Fallback(str_replace(template, <<"{">> \o key \o <<"}">>,
                                  dict_get(components, key, <<"[">> \o key \o <<"]">>)),
                      pools, components, i + 1)

generate_prompt(seed, prompt_idx, profile) ==
    IF "templates" \notin DOMAIN profile \/ "pools" \notin DOMAIN profile
    THEN Ret("KeyError", <<>>, <<>>, <<>>, <<>>, <<>>)
    ELSE
    Bind(profile["templates"], LAMBDA templates :
    Bind(profile["pools"], LAMBDA pools :
    Bind(<<prompt_idx, W(0, 0)>>, LAMBDA crd0 :
    \* Step 1: select template
    Bind(prompt_hash(seed, crd0), LAMBDA template_hash :
        IF template_hash.exc # "none"
        THEN Ret(template_hash.exc, <<>>, <<crd0>>, <<>>, <<>>, <<>>)
        ELSE
        Bind(hash_to_index(template_hash.val, Len(templates)), LAMBDA ti :
            IF ti.exc # "none"
            THEN Ret(ti.exc, <<>>, <<crd0>>, <<Len(templates)>>, <<>>, <<>>)
            ELSE
            Bind(templates[ti.val + 1], LAMBDA template :
            \* Step 2: generate each component
            Bind(SelectComponents(seed, prompt_idx, pools, 0,
                     [exc |-> "none", hashes |-> <<crd0>>,
                      sizes |-> <<Len(templates)>>, components |-> <<>>]), LAMBDA st :
                IF st.exc # "none"
                THEN Ret(st.exc, <<>>, st.hashes, st.sizes, template, st.components)
                ELSE
                \* Step 3: format template with components
                Bind(str_format(template, st.components), LAMBDA f :
                    IF f.exc = "KeyError"
                    THEN Ret("none", Fallback(template, pools, st.components, 1),
                             st.hashes, st.sizes, template, st.components)
                    ELSE Ret(f.exc, f.val, st.hashes, st.sizes, template, st.components)))))))))

(***************************************************************************)
(* Profile management                                                      *)
(*                                                                         *)
(* A file is absent, holds text json.load rejects, or holds a JSON object. *)
(***************************************************************************)
Absent == [kind |-> "absent"]

\* an empty file: json.load raises "Expecting value: line 1 column 1 (char 0)"
Malformed == [kind |-> "malformed"]

Json(obj) == [kind |-> "json", obj |-> obj]

\* load_profile without the check for the 'pools' field
load_profile_templates_only(profile_name) ==
    LET f == files[profile_name]
    IN  IF f.kind = "absent"
        THEN [exc |-> "FileNotFoundError", val |-> <<>>,
              msg |-> <<"Profile not found: ", profile_name>>]
        ELSE IF f.kind = "malformed"
        THEN [exc |-> "JSONDecodeError", val |-> <<>>,
              msg |-> <<"Expecting value: line 1 column 1 (char 0)">>]
        ELSE IF "templates" \notin DOMAIN f.obj
        THEN [exc |-> "ValueError", val |-> <<>>,
              msg |-> <<"Profile ", profile_name, " missing 'templates' field">>]
        ELSE [exc |-> "none", val |-> f.obj, msg |-> <<>>]

\* load_profile without the validation of required fields
load_profile_unvalidated(profile_name) ==
    LET f == files[profile_name]
    IN  IF f.kind = "absent"
        THEN [exc |-> "FileNotFoundError", val |-> <<>>,
              msg |-> <<"Profile not found: ", profile_name>>]
        ELSE IF f.kind = "malformed"
        THEN [exc |-> "JSONDecodeError", val |-> <<>>,
              msg |-> <<"Expecting value: line 1 column 1 (char 0)">>]
        ELSE [exc |-> "none", val |-> f.obj, msg |-> <<>>]

\* load_profile returns [exc, val, msg]; msg is str(e) of the exception
load_profile(profile_name) ==
    LET f == files[profile_name]
    IN  IF f.kind = "absent"
        THEN [exc |-> "FileNotFoundError", val |-> <<>>,
              msg |-> <<"Profile not found: ", profile_name>>]
        ELSE IF f.kind = "malformed"
        THEN [exc |-> "JSONDecodeError", val |-> <<>>,
              msg |-> <<"Expecting value: line 1 column 1 (char 0)">>]
        ELSE IF "templates" \notin DOMAIN f.obj
        THEN [exc |-> "ValueError", val |-> <<>>,
              msg |-> <<"Profile ", profile_name, " missing 'templates' field">>]
        ELSE IF "pools" \notin DOMAIN f.obj
        THEN [exc |-> "ValueError", val |-> <<>>,
              msg |-> <<"Profile ", profile_name, " missing 'pools' field">>]
        ELSE [exc |-> "none", val |-> f.obj, msg |-> <<>>]

\* the dict's .get(key, default) on a parsed profile
profile_get(profile, key, default) ==
    IF key \in DOMAIN profile THEN profile[key] ELSE default

\* total += len(pool) in place of total *= len(pool)
RECURSIVE TimesLens_adding(_, _, _)
TimesLens_adding(total, pools, i) ==
    IF i > Len(pools) THEN total
    ELSE TimesLens_adding(total + Len(pools[i].value), pools, i + 1)

RECURSIVE TimesLens(_, _, _)
TimesLens(total, pools, i) ==
    IF i > Len(pools) THEN total
    ELSE TimesLens(total * Len(pools[i].value), pools, i + 1)

\* the product of the pool lengths alone when there are no pools
calculate_combinations_pools_only(profile) ==
    IF profile_get(profile, "pools", <<>>) = <<>> THEN 1
    ELSE TimesLens(Len(profile_get(profile, "templates", <<>>)),
                   profile_get(profile, "pools", <<>>), 1)

calculate_combinations(profile) ==
    TimesLens(Len(profile_get(profile, "templates", <<>>)),
              profile_get(profile, "pools", <<>>), 1)

(***************************************************************************)
(* Node handlers                                                           *)
(***************************************************************************)
\* the value of an argument the caller leaves out
None == "None"

DEFAULT_PROFILE(node) ==
    IF node = "Z2J_Composition" THEN "composition_default.json" ELSE "default.json"

\* a cache that keeps the latest profile only
CachePut_evicting(cache, profile, data) == [n \in {profile} |-> data]

\* self._profile_cache[profile] = data
CachePut(cache, profile, data) ==
    [n \in DOMAIN cache \cup {profile} |-> IF n = profile THEN data ELSE cache[n]]

\* the trace of a call that never reached generate_prompt
NoPrompt == Ret("none", <<>>, <<>>, <<>>, <<>>, <<>>)

\* Zero2JSONBaseNode.generate: the returned 1-tuple in ret (<<>> when the call
\* raises exc), the class-level cache after the call, and the trace: the
\* resolved profile name, how the profile was acquired (load), whether
\* generate_prompt was called (rendered), with which data and what it did (gp)
generate(node, seed, prompt_index, profile_arg, prefix, suffix) ==
    Bind(IF profile_arg = None THEN DEFAULT_PROFILE(node) ELSE profile_arg, LAMBDA profile :
        IF profile \in DOMAIN profile_cache
        THEN Bind(generate_prompt(seed, prompt_index, profile_cache[profile]), LAMBDA gp :
                [exc |-> gp.exc,
                 ret |-> IF gp.exc # "none" THEN <<>>
                         ELSE IF prefix # <<>> \/ suffix # <<>>
                         THEN <<prefix \o gp.val \o suffix>>
                         ELSE <<gp.val>>,
                 cache |-> profile_cache, name |-> profile, load |-> "cached",
                 rendered |-> TRUE, data |-> profile_cache[profile], gp |-> gp])
        ELSE
        Bind(load_profile(profile), LAMBDA ld :
            IF ld.exc \in {"FileNotFoundError", "ValueError", "JSONDecodeError"}
            THEN [exc |-> "none",
                  ret |-> << <<"[Error loading profile '", profile, "': ">>
                             \o ld.msg \o <<"]">> >>,
                  cache |-> profile_cache, name |-> profile, load |-> ld.exc,
                  rendered |-> FALSE, data |-> <<>>, gp |-> NoPrompt]
            ELSE IF ld.exc # "none"
            THEN [exc |-> ld.exc, ret |-> <<>>,
                  cache |-> profile_cache, name |-> profile, load |-> ld.exc,
                  rendered |-> FALSE, data |-> <<>>, gp |-> NoPrompt]
            ELSE
            Bind(generate_prompt(seed, prompt_index, ld.val), LAMBDA gp :
                [exc |-> gp.exc,
                 ret |-> IF gp.exc # "none" THEN <<>>
                         ELSE IF prefix # <<>> \/ suffix # <<>>
                         THEN <<prefix \o gp.val \o suffix>>
                         ELSE <<gp.val>>,
                 cache |-> CachePut(profile_cache, profile, ld.val), name |-> profile,
                 load |-> "none", rendered |-> TRUE, data |-> ld.val, gp |-> gp])))

DigitChars == <<"0", "1", "2", "3", "4", "5", "6", "7", "8", "9">>

\* str(n) for a natural n
RECURSIVE int_str(_)
int_str(n) ==
    IF n < 10 THEN <<DigitChars[n + 1]>>
    ELSE int_str(n \div 10) \o <<DigitChars[(n % 10) + 1]>>

\* sep.join(strs)
RECURSIVE str_join(_, _)
str_join(sep, strs) ==
    IF strs = <<>> THEN <<>>
    ELSE IF Len(strs) = 1 THEN strs[1]
    ELSE strs[1] \o sep \o str_join(sep, Tail(strs))

\* for i in range(count): prompts.append(generate_prompt(seed, start_index + i,
\* profile_data)), from offset i on; gps holds the traces of the calls made so
\* far and the loop ends at the first call that raises
RECURSIVE BatchPrompts(_, _, _, _, _, _)
BatchPrompts(seed, start_index, count, profile_data, i, gps) ==
    IF i >= count THEN gps
    ELSE Bind(generate_prompt(seed, AddInt(start_index, i), profile_data), LAMBDA gp :
            IF gp.exc # "none" THEN Append(gps, gp)
            ELSE BatchPrompts(seed, start_index, count, profile_data, i + 1, Append(gps, gp)))

\* the list labelled from 1: enumerate(prompts, 1)
IndexedPrompts_from_one(prompts) ==
    [k \in 1..Len(prompts) |-> <<"[">> \o int_str(k) \o <<"]", " ">> \o prompts[k]]

\* [f"[{i}] {p}" for i, p in enumerate(prompts)]
IndexedPrompts(prompts) ==
    [k \in 1..Len(prompts) |-> <<"[">> \o int_str(k - 1) \o <<"]", " ">> \o prompts[k]]

\* Z2J_BatchGenerator.generate_batch: the returned pair in ret (<<>> when the
\* call raises exc) and the trace: the outcome of load_profile (load), the
\* data rendered from, the prompts list and the generate_prompt calls (gps)
generate_batch(seed, start_index, count, profile_arg, separator) ==
    Bind(IF profile_arg = None THEN "default.json" ELSE profile_arg, LAMBDA profile :
    Bind(load_profile(profile), LAMBDA ld :
        IF ld.exc # "none"
        THEN [exc |-> "none", ret |-> << <<"Error: ">> \o ld.msg, <<"[", "]">> >>,
              name |-> profile, load |-> ld.exc, data |-> <<>>,
              prompts |-> <<>>, gps |-> <<>>]
        ELSE
        Bind(BatchPrompts(seed, start_index, count, ld.val, 0, <<>>), LAMBDA gps :
            IF gps # <<>> /\ gps[Len(gps)].exc # "none"
            THEN [exc |-> gps[Len(gps)].exc, ret |-> <<>>,
                  name |-> profile, load |-> "none", data |-> ld.val,
                  prompts |-> [k \in 1..(Len(gps) - 1) |-> gps[k].val], gps |-> gps]
            ELSE
            Bind([k \in 1..Len(gps) |-> gps[k].val], LAMBDA prompts :
                [exc |-> "none",
                 ret |-> <<str_join(separator, prompts),
                           str_join(<<"\n">>, IndexedPrompts(prompts))>>,
                 name |-> profile, load |-> "none", data |-> ld.val,
                 prompts |-> prompts, gps |-> gps]))))

\* seed.to_bytes(4, 'big')
to_bytes4_big(x) ==
    IF Hi(x) < 0 \/ Hi(x) >= B16 THEN Raise("OverflowError")
    ELSE Ok(<<Hi(x) \div 256, Hi(x) % 256, Lo(x) \div 256, Lo(x) % 256>>)

\* seed.to_bytes(4, 'little')
to_bytes4(x) ==
    IF Hi(x) < 0 \/ Hi(x) >= B16 THEN Raise("OverflowError") ELSE Ok(PackWord(x))

\* Z2J_SeedMixer.mix_seeds: one unseeded hasher fed the four seeds in order
mix_seeds(seed_1, seed_2, seed_3, seed_4) ==
    Bind(<<to_bytes4(seed_1), to_bytes4(seed_2), to_bytes4(seed_3), to_bytes4(seed_4)>>,
         LAMBDA bs :
            IF \E k \in 1..4 : bs[k].exc # "none"
            THEN [exc |-> "OverflowError", ret |-> <<>>]
            ELSE [exc |-> "none",
                  ret |-> <<xxh32(bs[1].val \o bs[2].val \o bs[3].val \o bs[4].val, W(0, 0))>>])

(***************************************************************************)
(* Profiles and arguments the model draws from                             *)
(***************************************************************************)
Profile(templates, pools) == [k \in {"templates", "pools"} |->
                                 IF k = "templates" THEN templates ELSE pools]

Item(key, value) == [key |-> key, value |-> value]

\* templates "{a} {b}" and "{b}-{a}" over pools a (3 items) and b (2 items)
PA == Profile(<< <<"{", "a", "}", " ", "{", "b", "}">>, <<"{", "b", "}", "-", "{", "a", "}">> >>,
              << Item(<<"a">>, << <<"x">>, <<"y">>, <<"z">> >>),
                 Item(<<"b">>, << <<"u">>, <<"v">> >>) >>)

\* one template "{c}!" over pool c (2 items)
PB == Profile(<< <<"{", "c", "}", "!">> >>, << Item(<<"c">>, << <<"p">>, <<"q">> >>) >>)

\* both keys present, pools an empty mapping
PNoSlots == Profile(<< <<"h", "i">> >>, <<>>)

PEmptyTemplates == Profile(<<>>, << Item(<<"a">>, << <<"x">> >>) >>)

PEmptyPool == Profile(<< <<"{", "a", "}">> >>, << Item(<<"a">>, <<>>) >>)

\* JSON objects lacking a required key
PNoTemplatesKey == [k \in {"pools"} |-> <<>>]

PNoPoolsKey == [k \in {"templates"} |-> << <<"h", "i">> >>]

ProfileNames == {"default.json", "composition_default.json"}

\* what "default.json" may hold; "composition_default.json" always holds PB
FileContents ==
    {Absent, Malformed, Json(PNoTemplatesKey), Json(PNoPoolsKey), Json(PEmptyTemplates),
     Json(PEmptyPool), Json(PNoSlots), Json(PA)}

Nodes == {"Zero2JSONBaseNode"}

Seeds == {W(0, 1), W(65535, 65535)}

\* 10 and 2^31 - 1
Indices == {W(0, 10), W(32767, 65535)}

MaxCount == 2

\* the default separator "\n---\n" and a caller's " | "
Separators == {<<"\n", "-", "-", "-", "\n">>, <<" ", "|", " ">>}

Affixes == {<< <<>>, <<>> >>, << <<"P", ":">>, <<".">> >>}

NoInput == [seed |-> W(0, 0), idx |-> W(0, 0), profile |-> <<>>]

NoCall == [op |-> "none"]

NoMemo == [exc |-> "unset", val |-> <<>>, later |-> 0]

HistoryCap == 2

\* the generate_prompt calls made by the call recorded in o
PromptCalls(o) ==
    IF o.op = "generate_prompt"
    THEN {[seed |-> o.seed, idx |-> o.idx, profile |-> o.profile,
           exc |-> o.gp.exc, val |-> o.gp.val]}
    ELSE IF o.op = "generate" /\ o.rendered
    THEN {[seed |-> o.seed, idx |-> o.prompt_index, profile |-> o.data,
           exc |-> o.gp.exc, val |-> o.gp.val]}
    ELSE IF o.op = "generate_batch"
    THEN {[seed |-> o.seed, idx |-> AddInt(o.start_index, k - 1), profile |-> o.data,
           exc |-> o.gps[k].exc, val |-> o.gps[k].val] : k \in 1..Len(o.gps)}
    ELSE {}

\* the calls among cs made with exactly the arguments in inp
Probes(cs) == {c \in cs : c.seed = inp.seed /\ c.idx = inp.idx /\ c.profile = inp.profile}

\* memo keeps the outcome of the first generate_prompt call made with the
\* arguments in inp, and counts the calls made after it (up to HistoryCap)
Remember(o) ==
    memo' = IF memo # NoMemo
            THEN [memo EXCEPT !.later = IF @ < HistoryCap THEN @ + 1 ELSE @]
            ELSE IF Probes(PromptCalls(o)) # {}
            THEN LET c == CHOOSE c \in Probes(PromptCalls(o)) : TRUE
                 IN  [exc |-> c.exc, val |-> c.val, later |-> 0]
            ELSE memo

(***************************************************************************)
(* The nodes: generate, generate_batch and mix_seeds calls against a       *)
(* profiles directory whose default.json the user may rewrite at any time  *)
(***************************************************************************)
Init ==
    /\ files \in {[n \in ProfileNames |-> IF n = "default.json" THEN c ELSE Json(PB)] :
                     c \in FileContents}
    /\ profile_cache = [n \in {} |-> <<>>]
    /\ inp = NoInput
    /\ out = NoCall
    /\ memo = NoMemo

Generate ==
    \E node \in Nodes, seed \in Seeds, prompt_index \in Indices,
       profile \in {None, "composition_default.json"}, affix \in Affixes :
        \E r \in {generate(node, seed, prompt_index, profile, affix[1], affix[2])} :
            /\ profile_cache' = r.cache
            /\ out' = [op |-> "generate", node |-> node, seed |-> seed,
                       prompt_index |-> prompt_index, profile |-> profile,
                       prefix |-> affix[1], suffix |-> affix[2],
                       exc |-> r.exc, ret |-> r.ret, name |-> r.name, load |-> r.load,
                       rendered |-> r.rendered, data |-> r.data, gp |-> r.gp]
            /\ Remember(out')
            /\ UNCHANGED <<files, inp>>

GenerateBatch ==
    \E seed \in Seeds, start_index \in Indices, count \in 1..MaxCount,
       profile \in {None, "composition_default.json"} :
        \E r \in {generate_batch(seed, start_index, count, profile,
                                 <<"\n", "-", "-", "-", "\n">>)} :
            /\ out' = [op |-> "generate_batch", seed |-> seed, start_index |-> start_index,
                       count |-> count, profile |-> profile,
                       separator |-> <<"\n", "-", "-", "-", "\n">>,
                       exc |-> r.exc, ret |-> r.ret, name |-> r.name, load |-> r.load,
                       data |-> r.data, prompts |-> r.prompts, gps |-> r.gps]
            /\ Remember(out')
            /\ UNCHANGED <<files, profile_cache, inp>>

\* seed_3 and seed_4 are left out and take their default 0
MixSeeds ==
    \E seed_1 \in Seeds, seed_2 \in Seeds :
        \E r \in {mix_seeds(seed_1, seed_2, W(0, 0), W(0, 0))} :
            /\ out' = [op |-> "mix_seeds", seed_1 |-> seed_1, seed_2 |-> seed_2,
                       seed_3 |-> W(0, 0), seed_4 |-> W(0, 0),
                       exc |-> r.exc, ret |-> r.ret]
            /\ Remember(out')
            /\ UNCHANGED <<files, profile_cache, inp>>

\* the user replaces default.json (or deletes it)
WriteFile ==
    \E c \in FileContents :
        /\ files' = [files EXCEPT !["default.json"] = c]
        /\ out' = [op |-> "write_file", name |-> "default.json"]
        /\ UNCHANGED <<profile_cache, inp, memo>>

Next == Generate \/ GenerateBatch \/ MixSeeds \/ WriteFile

Spec == Init /\ [][Next]_vars

(***************************************************************************)
(* The core functions applied to arguments drawn from bounded sets         *)
(***************************************************************************)
MaxLen == 3

MaxTemplates == 3

MaxPools == 2

MaxPoolSize == 3

MaxOrdinal == 2

Alphabet == {"a", "{", "}", "0"}

\* every string over Alphabet of length 0..MaxLen
Texts == UNION {[1..n -> Alphabet] : n \in 0..MaxLen}

\* a profile whose single template is t, over one pool a = ["x", "y"]
TextProfile(t) == Profile(<<t>>, << Item(<<"a">>, << <<"x">>, <<"y">> >>) >>)

PoolLetters == <<"a", "b", "c", "d">>

\* "{a}{b}..." for the first n pool names
RECURSIVE Slots(_)
Slots(n) == IF n = 0 THEN <<>> ELSE Slots(n - 1) \o <<"{", PoolLetters[n], "}">>

\* the k-th template "t<k>:{a}{b}" references the first MaxPools pool names;
\* the j-th item of the i-th pool is "<letter><j>"
GridProfile(nt, sizes) ==
    Profile([k \in 1..nt |-> <<"t">> \o int_str(k) \o <<":">> \o Slots(MaxPools)],
            [i \in 1..Len(sizes) |->
                Item(<<PoolLetters[i]>>,
                     [j \in 1..sizes[i] |-> <<PoolLetters[i]>> \o int_str(j)])])

GridProfiles ==
    {GridProfile(nt, sizes) :
        nt \in 0..MaxTemplates,
        sizes \in UNION {[1..n -> 0..MaxPoolSize] : n \in 0..MaxPools}}

\* template "A {known} B {unknown} C" over pools {known: ["x"]}
PUnknownSlot ==
    Profile(<< <<"A", " ", "{", "k", "n", "o", "w", "n", "}", " ", "B", " ",
                 "{", "u", "n", "k", "n", "o", "w", "n", "}", " ", "C">> >>,
            << Item(<<"k", "n", "o", "w", "n">>, << <<"x">> >>) >>)

\* templates ["t1", "t2"] over pools {a: ["x", "y", "z"]}
PSix == Profile(<< <<"t", "1">>, <<"t", "2">> >>,
                << Item(<<"a">>, << <<"x">>, <<"y">>, <<"z">> >>) >>)

CoreProfiles == {TextProfile(t) : t \in Texts} \cup GridProfiles \cup {PUnknownSlot, PSix, PA}

\* 0, 10, 2^31 - 1, 2^31 and 2^32 - 1
CoreIndices == {W(0, 0), W(0, 10), W(32767, 65535), W(32768, 0), W(65535, 65535)}

InitCore ==
    /\ files = [n \in ProfileNames |-> Absent]
    /\ profile_cache = [n \in {} |-> <<>>]
    /\ inp \in [seed : Seeds, idx : CoreIndices, profile : CoreProfiles]
    /\ out = NoCall
    /\ memo = NoMemo

CallPromptHash ==
    \E k \in 0..MaxOrdinal :
        /\ out' = [op |-> "prompt_hash", seed |-> inp.seed, coords |-> <<inp.idx, W(0, k)>>,
                   r |-> prompt_hash(inp.seed, <<inp.idx, W(0, k)>>)]
        /\ UNCHANGED <<files, profile_cache, inp, memo>>

CallGeneratePrompt ==
    /\ out' = [op |-> "generate_prompt", seed |-> inp.seed, idx |-> inp.idx,
               profile |-> inp.profile,
               gp |-> generate_prompt(inp.seed, inp.idx, inp.profile)]
    /\ UNCHANGED <<files, profile_cache, inp, memo>>

CallCalculateCombinations ==
    /\ out' = [op |-> "calculate_combinations", profile |-> inp.profile,
               total |-> calculate_combinations(inp.profile)]
    /\ UNCHANGED <<files, profile_cache, inp, memo>>

NextCore == CallPromptHash \/ CallGeneratePrompt \/ CallCalculateCombinations

SpecCore == InitCore /\ [][NextCore]_vars

(***************************************************************************)
(* Call histories: arguments are fixed in inp, and generate_prompt is      *)
(* called with them, directly or by a node, between any other calls        *)
(***************************************************************************)
InitDet ==
    /\ files = [n \in ProfileNames |-> IF n = "default.json" THEN Json(PA) ELSE Json(PB)]
    /\ profile_cache = [n \in {} |-> <<>>]
    /\ inp \in [seed : Seeds, idx : {W(0, 10)}, profile : {PA, PB}]
    /\ out = NoCall
    /\ memo = NoMemo

\* generate_prompt called directly with the arguments in inp
Render ==
    /\ out' = [op |-> "generate_prompt", seed |-> inp.seed, idx |-> inp.idx,
               profile |-> inp.profile,
               gp |-> generate_prompt(inp.seed, inp.idx, inp.profile)]
    /\ Remember(out')
    /\ UNCHANGED <<files, profile_cache, inp>>

NextDet == Render \/ Generate \/ GenerateBatch \/ MixSeeds

SpecDet == InitDet /\ [][NextDet]_vars

(***************************************************************************)
(* Change tokens (IS_CHANGED) and the seed mixer's arguments               *)
(***************************************************************************)
\* the characters of the profile file names the model uses
NameChars(name) ==
    CASE name = "default.json" ->
            <<"d", "e", "f", "a", "u", "l", "t", ".", "j", "s", "o", "n">>
      [] name = "composition_default.json" ->
            <<"c", "o", "m", "p", "o", "s", "i", "t", "i", "o", "n", "_",
              "d", "e", "f", "a", "u", "l", "t", ".", "j", "s", "o", "n">>
      [] OTHER -> <<>>

\* ord(c) for the characters of those names
Ord(c) ==
    CASE c = "." -> 46  [] c = "_" -> 95  [] c = "a" -> 97  [] c = "c" -> 99
      [] c = "d" -> 100 [] c = "e" -> 101 [] c = "f" -> 102 [] c = "i" -> 105
      [] c = "j" -> 106 [] c = "l" -> 108 [] c = "m" -> 109 [] c = "n" -> 110
      [] c = "o" -> 111 [] c = "p" -> 112 [] c = "s" -> 115 [] c = "t" -> 116
      [] c = "u" -> 117

\* profile_str.encode(): the UTF-8 bytes of an ASCII name
str_encode(name) == [k \in 1..Len(NameChars(name)) |-> Ord(NameChars(name)[k])]

\* Python's a ^ b on integers of either sign (two's complement)
XorInt(a, b) ==
    IF a >= 0 /\ b >= 0 THEN XorNat(a, b)
    ELSE IF a < 0 /\ b < 0 THEN XorNat(-1 - a, -1 - b)
    ELSE IF a < 0 THEN -1 - XorNat(-1 - a, b)
    ELSE -1 - XorNat(a, -1 - b)

\* x ^ y on Python ints
PyXor(x, y) == <<XorInt(Hi(x), Hi(y)), XorNat(Lo(x), Lo(y))>>

\* the token without the profile: prompt_hash(seed, prompt_index, 0)
IS_CHANGED_profileless(node, seed, prompt_index, profile_arg) ==
    prompt_hash(seed, <<prompt_index, W(0, 0)>>)

\* Zero2JSONBaseNode.IS_CHANGED, inherited by every generation node
IS_CHANGED(node, seed, prompt_index, profile_arg) ==
    Bind(IF profile_arg \in {None, ""} THEN DEFAULT_PROFILE(node) ELSE profile_arg,
         LAMBDA profile_str :
    BindNow(xxh32(str_encode(profile_str), W(0, 0)), LAMBDA profile_hash :
    BindNow(PyXor(seed, profile_hash), LAMBDA s :
        prompt_hash(s, <<prompt_index, W(0, 0)>>))))

\* Z2J_BatchGenerator.IS_CHANGED
BatchGenerator_IS_CHANGED(seed, start_index, count, profile_arg) ==
    Bind(IF profile_arg = None THEN "default.json" ELSE profile_arg, LAMBDA profile :
    BindNow(xxh32(str_encode(profile), W(0, 0)), LAMBDA profile_hash :
    BindNow(PyXor(seed, profile_hash), LAMBDA s :
        prompt_hash(s, <<start_index, W(0, count)>>))))

\* Z2J_SeedMixer.IS_CHANGED: seed_3 and seed_4 are accepted and not used
SeedMixer_IS_CHANGED(seed_1, seed_2, seed_3, seed_4) ==
    Bind(<<to_bytes4(seed_1), to_bytes4(seed_2)>>, LAMBDA bs :
        IF \E k \in 1..2 : bs[k].exc # "none"
        THEN Raise("OverflowError")
        ELSE Ok(xxh32(bs[1].val \o bs[2].val, W(0, 0))))

\* an optional seed argument the caller leaves out
Omitted == <<>>

\* the value of an optional seed argument: its default 0 when left out
SeedArg(x) == IF x = Omitted THEN W(0, 0) ELSE x

TokenNodes == {"Zero2JSONBaseNode", "Z2J_Composition"}

\* profile arguments: left out, or a file name the profile list offers
TokenProfiles == {None, "default.json", "composition_default.json"}

\* 0, 1, 2 and 2^32 - 1
MixSeedValues == {W(0, 0), W(0, 1), W(0, 2), W(65535, 65535)}

\* Python ints below 0 and from 2^32 on, next to values in range:
\* -2^31, -1, 0, 1, 2^32 - 1, 2^32 + 1 and 2^33 - 1
WideSeeds == {W(-32768, 0), W(-1, 65535), W(0, 0), W(0, 1), W(65535, 65535),
              W(65536, 1), W(131071, 65535)}

\* coordinate tuples of length 0..3; -1 fits struct's 'i' and 2^31 does not
CoordTuples == {<<>>, <<W(0, 10)>>, <<W(0, 10), W(0, 0)>>, <<W(0, 10), W(0, 1)>>,
                <<W(32767, 65535), W(0, 2)>>, <<W(-1, 65535), W(0, 0)>>,
                <<W(32768, 0), W(0, 0)>>, <<W(0, 3), W(0, 2), W(0, 1)>>}

\* the arguments of one call: of a node's IS_CHANGED, of the seed mixer, or of
\* prompt_hash with a seed of any size
TokenInputs ==
    [kind : {"token"}, node : TokenNodes, seed : Seeds, prompt_index : CoreIndices,
     count : 1..MaxCount, profile : TokenProfiles]
    \cup [kind : {"mix"}, seed_1 : MixSeedValues, seed_2 : MixSeedValues \cup {Omitted},
          seed_3 : MixSeedValues \cup {Omitted}, seed_4 : MixSeedValues \cup {Omitted}]
    \cup [kind : {"hash"}, seed : WideSeeds, coords : CoordTuples]

InitTokens ==
    /\ files = [n \in ProfileNames |-> Absent]
    /\ profile_cache = [n \in {} |-> <<>>]
    /\ inp \in TokenInputs
    /\ out = NoCall
    /\ memo = NoMemo

CallIsChanged ==
    /\ inp.kind = "token"
    /\ out' = [op |-> "IS_CHANGED", node |-> inp.node, seed |-> inp.seed,
               prompt_index |-> inp.prompt_index, profile |-> inp.profile,
               token |-> IS_CHANGED(inp.node, inp.seed, inp.prompt_index, inp.profile)]
    /\ UNCHANGED <<files, profile_cache, inp, memo>>

\* the batch generator's start_index and count are inp's prompt_index and count
CallBatchIsChanged ==
    /\ inp.kind = "token"
    /\ out' = [op |-> "BatchGenerator.IS_CHANGED", node |-> "Z2J_BatchGenerator",
               seed |-> inp.seed, start_index |-> inp.prompt_index, count |-> inp.count,
               profile |-> inp.profile,
               token |-> BatchGenerator_IS_CHANGED(inp.seed, inp.prompt_index, inp.count,
                                                   inp.profile)]
    /\ UNCHANGED <<files, profile_cache, inp, memo>>

CallMixSeeds ==
    /\ inp.kind = "mix"
    /\ \E r \in {mix_seeds(inp.seed_1, SeedArg(inp.seed_2), SeedArg(inp.seed_3),
                            SeedArg(inp.seed_4))} :
            out' = [op |-> "mix_seeds", seed_1 |-> inp.seed_1, seed_2 |-> inp.seed_2,
                    seed_3 |-> inp.seed_3, seed_4 |-> inp.seed_4,
                    exc |-> r.exc, ret |-> r.ret]
    /\ UNCHANGED <<files, profile_cache, inp, memo>>

CallSeedMixerIsChanged ==
    /\ inp.kind = "mix"
    /\ out' = [op |-> "SeedMixer.IS_CHANGED", seed_1 |-> inp.seed_1, seed_2 |-> inp.seed_2,
               seed_3 |-> inp.seed_3, seed_4 |-> inp.seed_4,
               token |-> SeedMixer_IS_CHANGED(inp.seed_1, SeedArg(inp.seed_2),
                                              SeedArg(inp.seed_3), SeedArg(inp.seed_4))]
    /\ UNCHANGED <<files, profile_cache, inp, memo>>

CallPromptHashSeed ==
    /\ inp.kind = "hash"
    /\ out' = [op |-> "prompt_hash", seed |-> inp.seed, coords |-> inp.coords,
               r |-> prompt_hash(inp.seed, inp.coords)]
    /\ UNCHANGED <<files, profile_cache, inp, memo>>

NextTokens ==
    CallIsChanged \/ CallBatchIsChanged \/ CallMixSeeds \/ CallSeedMixerIsChanged
        \/ CallPromptHashSeed

SpecTokens == InitTokens /\ [][NextTokens]_vars

(***************************************************************************)
(* The batch generator applied to arguments drawn from bounded sets, the   *)
(* separator among them                                                    *)
(***************************************************************************)
InitBatch ==
    /\ files \in {[n \in ProfileNames |-> IF n = "default.json" THEN c ELSE Json(PB)] :
                     c \in FileContents}
    /\ profile_cache = [n \in {} |-> <<>>]
    /\ inp \in [seed : Seeds, start_index : {W(0, 0)} \cup Indices, count : 1..MaxCount,
                profile : {None, "composition_default.json"}, separator : Separators]
    /\ out = NoCall
    /\ memo = NoMemo

CallGenerateBatch ==
    \E r \in {generate_batch(inp.seed, inp.start_index, inp.count, inp.profile,
                             inp.separator)} :
        /\ out' = [op |-> "generate_batch", seed |-> inp.seed,
                   start_index |-> inp.start_index, count |-> inp.count,
                   profile |-> inp.profile, separator |-> inp.separator,
                   exc |-> r.exc, ret |-> r.ret, name |-> r.name, load |-> r.load,
                   data |-> r.data, prompts |-> r.prompts, gps |-> r.gps]
        /\ UNCHANGED <<files, profile_cache, inp, memo>>

NextBatch == CallGenerateBatch

SpecBatch == InitBatch /\ [][NextBatch]_vars

(***************************************************************************)
(* Properties                                                              *)
(***************************************************************************)
HasBothKeys(profile) == "templates" \in DOMAIN profile /\ "pools" \in DOMAIN profile

\* non-empty templates and no empty pool
NonEmptyProfile(profile) ==
    /\ HasBothKeys(profile)
    /\ Len(profile["templates"]) > 0
    /\ \A i \in 1..Len(profile["pools"]) : Len(profile["pools"][i].value) > 0

\* the traces of the generate_prompt calls made by the call recorded in o
PromptTraces(o) ==
    IF o.op = "generate_prompt" THEN {o.gp}
    ELSE IF o.op = "generate" /\ o.rendered THEN {o.gp}
    ELSE IF o.op = "generate_batch" THEN {o.gps[k] : k \in 1..Len(o.gps)}
    ELSE {}

\* load_profile ran in the call recorded in o (generate skips it on a cache hit)
LoadAttempted(o) ==
    \/ o.op = "generate_batch"
    \/ o.op = "generate" /\ o.load # "cached"

\* C1: with template "A {known} B {unknown} C" and pools {known: ["x"]},
\* generate_prompt does not raise and returns "A x B [unknown] C" (stated for
\* the prompt indices struct.pack accepts)
C1_UnknownSlotBracketed ==
    (out.op = "generate_prompt" /\ out.profile = PUnknownSlot /\ FitsInt32(out.idx))
        => /\ out.gp.exc = "none"
           /\ out.gp.val = <<"A", " ", "x", " ", "B", " ", "[", "u", "n", "k", "n", "o",
                             "w", "n", "]", " ", "C">>

\* C2: generate_prompt returns a string and never raises, whatever the text
\* of the templates of a profile that has both required keys (stated for
\* profiles without empty lists and the prompt indices struct.pack accepts)
C2_TotalOnValidatedProfiles ==
    (out.op = "generate_prompt" /\ NonEmptyProfile(out.profile) /\ FitsInt32(out.idx))
        => out.gp.exc = "none"

\* C3: in every generate and generate_batch call, hash_to_index is only called
\* with pool_size > 0, and no hash is computed for a profile with an empty
\* templates sequence or an empty pool list
C3_EmptyListsRejected ==
    out.op \in {"generate", "generate_batch"}
        => \A t \in PromptTraces(out) :
              /\ \A k \in 1..Len(t.sizes) : t.sizes[k] > 0
              /\ (HasBothKeys(out.data) /\ ~NonEmptyProfile(out.data)) => t.hashes = <<>>

\* C4: a parsed profile lacking 'templates' or 'pools' is rejected by
\* load_profile with an error and generate / generate_batch then make no
\* generate_prompt call and compute no hash; no generate_prompt call is ever
\* made on data lacking a key; a profile with both keys and pools an empty
\* mapping is accepted
C4_MissingKeyRejected ==
    out.op \in {"generate", "generate_batch"}
        => /\ (LoadAttempted(out) /\ files[out.name].kind = "json"
                                  /\ ~HasBothKeys(files[out.name].obj))
                => (out.load = "ValueError" /\ out.exc = "none" /\ PromptTraces(out) = {})
           /\ \A c \in PromptCalls(out) : HasBothKeys(c.profile)
           /\ (LoadAttempted(out) /\ files[out.name].kind = "json"
                                  /\ HasBothKeys(files[out.name].obj)
                                  /\ files[out.name].obj["pools"] = <<>>)
                => (out.load = "none" /\ out.data = files[out.name].obj)

\* a generate call met a file lacking 'pools' and answered with the error text
C4_Witness ==
    /\ out.op = "generate"
    /\ out.load = "ValueError"
    /\ files[out.name].kind = "json"
    /\ "pools" \notin DOMAIN files[out.name].obj
    /\ ~out.rendered

\* C5: for every seed and prompt index in 0..2^32-1, prompt_hash returns a
\* value in 0..2^32-1 and generate_prompt is not stopped by the index
C5_FullIndexRange ==
    /\ out.op = "prompt_hash"
          => /\ out.r.exc = "none"
             /\ Hi(out.r.val) \in 0..65535 /\ Lo(out.r.val) \in 0..65535
    /\ out.op = "generate_prompt" => out.gp.exc # "struct.error"

C7_BatchConsistency ==
    (out.op = "generate_batch" /\ out.load = "none" /\ NonEmptyProfile(out.data))
        => /\ out.exc = "none"
           /\ Len(out.prompts) = out.count
           /\ \A i \in 0..(out.count - 1) :
                 LET gp == generate_prompt(out.seed, AddInt(out.start_index, i), out.data)
                 IN  gp.exc = "none" => (i < Len(out.prompts) /\ out.prompts[i + 1] = gp.val)

\* the index hash_to_index is specified to return: h mod n
IndexOf(h, n) == Mod32(h, n)

\* C8: whenever generate_prompt completes its selection, the template is
\* templates[prompt_hash(seed, prompt_idx, 0) mod len(templates)], the i-th
\* pool (i from 1, in the profile's order) contributes
\* pool[prompt_hash(seed, prompt_idx, i) mod len(pool)] under its own name,
\* and the ordinals hashed are exactly 0, 1, .., K in that order
C8_SelectionRule ==
    (out.op = "generate_prompt" /\ out.gp.exc \notin {"struct.error", "ZeroDivisionError"})
        => LET templates == out.profile["templates"]
               pools     == out.profile["pools"]
               K         == Len(pools)
           IN  /\ out.gp.template =
                     templates[IndexOf(prompt_hash(out.seed, <<out.idx, W(0, 0)>>).val,
                                       Len(templates)) + 1]
               /\ Len(out.gp.components) = K
               /\ \A i \in 1..K :
                     /\ out.gp.components[i].key = pools[i].key
                     /\ out.gp.components[i].value =
                           pools[i].value[IndexOf(prompt_hash(out.seed, <<out.idx, W(0, i)>>).val,
                                                  Len(pools[i].value)) + 1]
               /\ out.gp.hashes = [k \in 1..(K + 1) |-> <<out.idx, W(0, k - 1)>>]

\* a prompt rendered from two or more pools where neither the template nor
\* every item chosen is the first of its list
C8_Witness ==
    /\ out.op = "generate_prompt"
    /\ out.gp.exc = "none"
    /\ Len(out.profile["pools"]) >= 2
    /\ out.gp.template # out.profile["templates"][1]
    /\ \E i \in 1..Len(out.profile["pools"]) :
          out.gp.components[i].value # out.profile["pools"][i].value[1]

\* the longest list of a profile
Longest(profile) ==
    LET lens == {Len(profile["templates"])} \cup
                {Len(profile["pools"][i].value) : i \in 1..Len(profile["pools"])}
    IN  CHOOSE m \in lens : \A n \in lens : n <= m

\* the ways to pick one template (position c[0]) and one item from every pool
\* (position c[i] in the i-th pool)
Combinations(profile) ==
    {c \in [0..Len(profile["pools"]) -> 1..Longest(profile)] :
        /\ c[0] <= Len(profile["templates"])
        /\ \A i \in 1..Len(profile["pools"]) : c[i] <= Len(profile["pools"][i].value)}

\* C9: calculate_combinations(profile) is len(templates) times the product of
\* the pool lengths, i.e. the number of ways to pick a template and one item
\* per pool; templates ["t1", "t2"] with pools {a: ["x", "y", "z"]} give 6
C9_Combinations ==
    out.op = "calculate_combinations"
        => /\ out.total = Cardinality(Combinations(out.profile))
           /\ out.profile = PSix => out.total = 6

C9_Witness ==
    /\ out.op = "calculate_combinations"
    /\ out.profile = PSix
    /\ out.total = 6

\* C10 as stated: calculate_combinations returns 1 whenever pools is empty
C10_EmptyPoolsGiveOne ==
    (out.op = "calculate_combinations" /\ out.profile["pools"] = <<>>) => out.total = 1

\* C10 amended: calculate_combinations returns len(templates) whenever the
\* profile's pools mapping is empty
C10_EmptyPoolsGiveTemplateCount ==
    (out.op = "calculate_combinations" /\ out.profile["pools"] = <<>>)
        => out.total = Len(out.profile["templates"])

C10_Witness ==
    /\ out.op = "calculate_combinations"
    /\ out.profile["pools"] = <<>>
    /\ Len(out.profile["templates"]) = 2
    /\ out.total = 2

\* the four bytes of an unsigned 32-bit value, least significant first
LittleEndian4(x) == <<Lo(x) % 256, Lo(x) \div 256, Hi(x) % 256, Hi(x) \div 256>>

\* C11: mix_seeds returns the unseeded xxh32 digest of seed_1..seed_4 written in
\* argument order as 4-byte little-endian unsigned integers, a left-out seed
\* counting as 0; the digest lies in 0..2^32-1; and mix_seeds(1, 2, 0, 0)
\* differs from mix_seeds(2, 1, 0, 0).
C11_MixSeedsDigest ==
    out.op = "mix_seeds" =>
        /\ out.exc = "none"
        /\ out.ret = <<xxh32(LittleEndian4(out.seed_1) \o LittleEndian4(SeedArg(out.seed_2))
                             \o LittleEndian4(SeedArg(out.seed_3))
                             \o LittleEndian4(SeedArg(out.seed_4)), W(0, 0))>>
        /\ Hi(out.ret[1]) \in 0..(B16 - 1) /\ Lo(out.ret[1]) \in 0..(B16 - 1)
        /\ (/\ out.seed_1 = W(0, 1) /\ SeedArg(out.seed_2) = W(0, 2)
            /\ SeedArg(out.seed_3) = W(0, 0) /\ SeedArg(out.seed_4) = W(0, 0))
           => out.ret # mix_seeds(W(0, 2), W(0, 1), W(0, 0), W(0, 0)).ret

\* mix_seeds(1, 2) has been called with seed_3 and seed_4 left out
C11_Witness ==
    /\ out.op = "mix_seeds"
    /\ out.seed_1 = W(0, 1) /\ out.seed_2 = W(0, 2)
    /\ out.seed_3 = Omitted /\ out.seed_4 = Omitted
    /\ out.ret = << W(56804, 28944) >>

\* the profile identifier a node's change token is about: the node's
\* DEFAULT_PROFILE when the profile argument is left out
TokenIdentifier(o) == IF o.profile = None THEN DEFAULT_PROFILE(o.node) ELSE o.profile

\* hash(seed XOR hash32(profileIdentifierBytes), [index, second])
TokenRule(o, index, second) ==
    BindNow(xxh32(str_encode(TokenIdentifier(o)), W(0, 0)), LAMBDA h :
    BindNow(PyXor(o.seed, h), LAMBDA s :
        prompt_hash(s, <<index, second>>)))

\* C12: the change token of every node that renders prompts, the batch
\* generator included, is prompt_hash(seed XOR xxh32(profile identifier bytes),
\* prompt_index, 0), an omitted profile standing for the node's DEFAULT_PROFILE.
C12_ChangeToken ==
    /\ out.op = "IS_CHANGED" => out.token = TokenRule(out, out.prompt_index, W(0, 0))
    /\ out.op = "BatchGenerator.IS_CHANGED" =>
           out.token = TokenRule(out, out.start_index, W(0, 0))

\* C12 (amended): a generation node's change token is prompt_hash(seed XOR
\* xxh32(profile identifier bytes), prompt_index, 0); the batch generator's is
\* prompt_hash(seed XOR xxh32(profile identifier bytes), start_index, count);
\* an omitted profile stands for the node's DEFAULT_PROFILE in both.
C12_ChangeTokenByNode ==
    /\ out.op = "IS_CHANGED" => out.token = TokenRule(out, out.prompt_index, W(0, 0))
    /\ out.op = "BatchGenerator.IS_CHANGED" =>
           out.token = TokenRule(out, out.start_index, W(0, out.count))

\* the batch generator's token has been computed with the profile left out, and
\* it is not the token of the generation nodes' rule
C12_Witness ==
    /\ out.op = "BatchGenerator.IS_CHANGED"
    /\ out.profile = None
    /\ out.token.exc = "none"
    /\ out.token # TokenRule(out, out.start_index, W(0, 0))

\* C13: a generate call naming a profile not yet cached loads it from its file
\* and, the load passing validation, stores it under its identifier; from then
\* on, whatever calls are made and however the file changes, the entry is
\* neither removed nor replaced, and a generate call naming a cached identifier
\* renders from the cached data without loading.
C13_CacheLifecycle ==
    [][/\ \A n \in DOMAIN profile_cache :
              n \in DOMAIN profile_cache' /\ profile_cache'[n] = profile_cache[n]
       /\ (out'.op = "generate" /\ out'.name \in DOMAIN profile_cache) =>
              /\ out'.load = "cached"
              /\ out'.rendered
              /\ out'.data = profile_cache[out'.name]
              /\ profile_cache' = profile_cache
       /\ (out'.op = "generate" /\ out'.name \notin DOMAIN profile_cache) =>
              /\ out'.load # "cached"
              /\ out'.load = "none" =>
                     /\ files[out'.name].kind = "json"
                     /\ HasBothKeys(files[out'.name].obj)
                     /\ out'.data = files[out'.name].obj
                     /\ DOMAIN profile_cache' = DOMAIN profile_cache \cup {out'.name}
                     /\ profile_cache'[out'.name] = files[out'.name].obj
              /\ out'.load # "none" => profile_cache' = profile_cache
      ]_vars

\* generate has rendered from a cached profile whose file no longer holds it,
\* while another profile is cached too
C13_Witness ==
    /\ out.op = "generate"
    /\ out.load = "cached"
    /\ files[out.name] # Json(profile_cache[out.name])
    /\ out.data = profile_cache[out.name]
    /\ DOMAIN profile_cache = ProfileNames

\* a file load_profile cannot return a profile from: not found, malformed JSON,
\* or a JSON object missing a required field
Unloadable(f) == f.kind \in {"absent", "malformed"} \/ ~HasBothKeys(f.obj)

\* C14: when generate has to load the profile and the file is not found, is
\* malformed JSON or lacks a required field, the call does not raise and returns
\* an error text naming the profile and carrying neither prefix nor suffix,
\* generate_prompt is not called and no hash is computed, the profile cache is
\* left unchanged, and the next generate call naming the profile loads again.
C14_LoadFailure ==
    [][/\ (/\ out'.op = "generate"
           /\ out'.name \notin DOMAIN profile_cache
           /\ Unloadable(files[out'.name])) =>
              /\ out'.exc = "none"
              /\ out'.load \in {"FileNotFoundError", "JSONDecodeError", "ValueError"}
              /\ Len(out'.ret) = 1
              /\ out'.ret[1][1] = "[Error loading profile '"
              /\ out'.ret[1][2] = out'.name
              /\ out'.ret[1][Len(out'.ret[1])] = "]"
              /\ ~out'.rendered
              /\ out'.gp.hashes = <<>> /\ out'.gp.sizes = <<>>
              /\ profile_cache' = profile_cache
              /\ out'.name \notin DOMAIN profile_cache'
       /\ (/\ out.op = "generate"
           /\ out.load \in {"FileNotFoundError", "JSONDecodeError", "ValueError"}
           /\ out'.op = "generate"
           /\ out'.name = out.name) => out'.load # "cached"
      ]_vars

\* generate was given a prefix and a suffix, failed to load a profile lacking a
\* required field and returned the error text, another profile being cached
C14_Witness ==
    /\ out.op = "generate"
    /\ out.load = "ValueError"
    /\ out.prefix # <<>> /\ out.suffix # <<>>
    /\ out.exc = "none"
    /\ out.ret[1][2] = "default.json"
    /\ DOMAIN profile_cache = {"composition_default.json"}

\* the first n strings of strs, sep between neighbours
RECURSIVE JoinedUpTo(_, _, _)
JoinedUpTo(strs, sep, n) ==
    IF n = 0 THEN <<>>
    ELSE IF n = 1 THEN strs[1]
    ELSE JoinedUpTo(strs, sep, n - 1) \o sep \o strs[n]

\* "[i] " for an offset i
OffsetLabel(i) ==
    <<"[">> \o (IF i < 10 THEN <<DigitChars[i + 1]>> ELSE int_str(i)) \o <<"]", " ">>

\* C15: a generate_batch call that renders its prompts returns the pair
\* (batch_text, prompts_list): batch_text is the count prompts, in index order,
\* joined by the caller's separator, and prompts_list is the same prompts in the
\* same order, the one at offset i from start_index prefixed with "[i] ",
\* joined by newlines.
C15_BatchFormat ==
    (out.op = "generate_batch" /\ out.load = "none" /\ out.exc = "none") =>
        /\ Len(out.ret) = 2
        /\ Len(out.prompts) = out.count
        /\ \A k \in 1..out.count :
               /\ out.gps[k].hashes[1][1] = AddInt(out.start_index, k - 1)
               /\ out.prompts[k] = out.gps[k].val
        /\ out.ret[1] = JoinedUpTo(out.prompts, out.separator, out.count)
        /\ out.ret[2] = JoinedUpTo([k \in 1..out.count |->
                                       OffsetLabel(k - 1) \o out.prompts[k]],
                                   <<"\n">>, out.count)

\* a batch of two prompts from start_index 10 has been returned with the
\* caller's own separator
C15_Witness ==
    /\ out.op = "generate_batch"
    /\ out.load = "none" /\ out.exc = "none"
    /\ out.start_index = W(0, 10)
    /\ out.count = 2
    /\ out.separator = <<" ", "|", " ">>
    /\ out.prompts[1] # out.prompts[2]
    /\ SubSeq(out.ret[2], 1, 4) = <<"[", "0", "]", " ">>

\* seed mod 2^32 for a Python int of either sign
SeedMod32(seed) == <<Hi(seed) % B16, Lo(seed)>>

\* C16: prompt_hash masks the seed to 32 bits: for every integer seed, negative
\* ones and ones from 2^32 on included, and every coordinate tuple,
\* prompt_hash(seed, coords) is prompt_hash(seed mod 2^32, coords), namely the
\* xxh32 digest of the packed coordinates seeded with seed mod 2^32, and the
\* call is rejected only when a coordinate does not fit the packing.
C16_SeedWrapping ==
    out.op = "prompt_hash" =>
        /\ out.r = prompt_hash(SeedMod32(out.seed), out.coords)
        /\ (\A k \in 1..Len(out.coords) : FitsInt32(out.coords[k])) =>
               out.r = Ok(xxh32(PackBytes(out.coords), SeedMod32(out.seed)))
        /\ out.r.exc # "none" => \E k \in 1..Len(out.coords) : ~FitsInt32(out.coords[k])

\* prompt_hash has returned a digest for a negative seed
C16_Witness ==
    /\ out.op = "prompt_hash"
    /\ Hi(out.seed) < 0
    /\ out.seed # SeedMod32(out.seed)
    /\ out.r.exc = "none"
    /\ Len(out.coords) = 2

\* the argument tuples of the seed mixer, every seed given
MixTuples == [1..4 -> MixSeedValues]

\* C17: the seed mixer's change token covers every input that affects the
\* output: whenever IS_CHANGED gives another in-range argument tuple the token
\* it gives the tuple mix_seeds was called with, mix_seeds returns the same
\* mixed_seed for that tuple.
C17_TokenCoversInputs ==
    out.op = "mix_seeds" =>
        \A t \in MixTuples :
            SeedMixer_IS_CHANGED(t[1], t[2], t[3], t[4])
              = SeedMixer_IS_CHANGED(out.seed_1, SeedArg(out.seed_2),
                                     SeedArg(out.seed_3), SeedArg(out.seed_4))
            => mix_seeds(t[1], t[2], t[3], t[4]).ret = out.ret

\* C18: in every reachable state, for the same profile identifier,
\* generate(seed, idx, profile) with empty prefix and suffix and
\* generate_batch(seed, idx, 1, profile) render from the same profile data, and
\* the text generate returns is the first prompt of the batch.
C18_SingleAndBatchAgree ==
    \A seed \in {W(0, 1)}, idx \in {W(0, 10)}, name \in ProfileNames :
        \A g \in {generate("Zero2JSONBaseNode", seed, idx, name, <<>>, <<>>)} :
            \A b \in {generate_batch(seed, idx, 1, name, <<"\n", "-", "-", "-", "\n">>)} :
                /\ g.rendered <=> b.load = "none"
                /\ g.rendered =>
                       /\ g.data = b.data
                       /\ g.exc = b.exc
                       /\ g.exc = "none" => g.ret = <<b.prompts[1]>>

\* profiles that keep the pools of p up to and including the n-th as they are:
\* p with a new pool appended, p with other templates, and p with every pool
\* after the n-th replaced
KeepingPools(p, n) ==
    {Profile(p["templates"], p["pools"] \o << Item(<<"n">>, << <<"n", "1">>, <<"n", "2">> >>) >>),
     Profile(<< <<"q">>, <<"r">>, <<"s">> >>, p["pools"]),
     Profile(p["templates"],
             [i \in 1..Len(p["pools"]) |->
                 IF i <= n THEN p["pools"][i]
                 ELSE Item(p["pools"][i].key, << <<"o", "1">>, <<"o", "2">>, <<"o", "3">>,
                                                 <<"o", "4">>, <<"o", "5">> >>)])}

\* p with the pools before the n-th replaced (there are n - 1 of them still)
ChangingEarlierPools(p, n) ==
    Profile(p["templates"],
            [i \in 1..Len(p["pools"]) |->
                IF i >= n THEN p["pools"][i]
                ELSE Item(p["pools"][i].key, << <<"o", "1">>, <<"o", "2">>, <<"o", "3">>,
                                                <<"o", "4">>, <<"o", "5">> >>)])

\* C19: for fixed (seed, prompt_idx), the item generate_prompt chooses for the
\* pool at ordinal i depends only on i and that pool's list: appending a pool
\* after the existing ones, changing the templates or changing the contents of
\* the other pools leaves the item chosen for every unchanged pool the same.
C19_SlotIndependence ==
    (out.op = "generate_prompt" /\ HasBothKeys(out.profile)) =>
        \A n \in 1..Len(out.gp.components) :
            /\ \A q \in KeepingPools(out.profile, n) :
                   \A r \in {generate_prompt(out.seed, out.idx, q)} :
                       /\ Len(r.components) >= n
                       /\ r.components[n] = out.gp.components[n]
            /\ \A r \in {generate_prompt(out.seed, out.idx,
                                         ChangingEarlierPools(out.profile, n))} :
                   /\ Len(r.components) >= n
                   /\ r.components[n] = out.gp.components[n]

\* generate_prompt has chosen among several templates and filled two pools,
\* the second with an item other than its first
C19_Witness ==
    /\ out.op = "generate_prompt"
    /\ out.gp.exc = "none"
    /\ Len(out.profile["templates"]) >= 2
    /\ Len(out.gp.components) >= 2
    /\ out.gp.components[2].value # out.profile["pools"][2].value[1]

====
